---- MODULE Spec2Model ----
(***************************************************************************)
(* Model of zebr0-lxd (src/zebr0_lxd/__init__.py): the idempotent          *)
(* lifecycle of LXD resources (Resource / Container), the response hook    *)
(* of the session (main.hook) and the four commands create / start / stop  *)
(* / delete.  The program is sequential: pc is the statement it is at,     *)
(* stack the return labels of the calls in progress.  The hypervisor is    *)
(* the environment: it answers each request and may honour it, drop it or  *)
(* refuse it.                                                              *)
(***************************************************************************)
EXTENDS Naturals, Sequences, FiniteSets, TLC

VARIABLES
    cmd,        \* args.command
    config,     \* the parsed "lxd-stack" document: a list of resource configs for each key it has
    idx,        \* number of lifecycle calls the command has made
    pc,         \* the statement the program is at
    stack,      \* return labels of the calls in progress (innermost last)
    result,     \* value returned by the last _exists / _is_running
    resp,       \* the response the session last received
    frames,     \* responses whose hook is blocked in session.get(.../wait) (innermost last)
    err,        \* the exception that ended the run (msg, body)
    log,        \* the lifecycle call in progress: its requests, each with the response received, in order
    muts,       \* mutating requests issued by the command so far, in order
    touched,    \* indexes of the lifecycle calls of the command that issued a request
    present,    \* hypervisor: the resources that exist, as <<collection url, name>>
    running,    \* hypervisor: the containers that run, as names
    before,     \* hypervisor: <<present, running>> when the lifecycle call in progress began
    initially   \* hypervisor: <<present, running>> when the command began

vars == <<cmd, config, idx, pc, stack, result, resp, frames, err, log, muts, touched, present, running, before, initially>>

-----------------------------------------------------------------------------
(* Bounds of the model *)

\* longest list of the containers key
MaxContainers == 2
\* longest chain of wait responses that are themselves of type async
MaxNest == 1
\* longest collection listing tried on _exists alone
MaxListing == 2

-----------------------------------------------------------------------------
(* Program constants and URL helpers *)

api_url == "http+unix://%2Fvar%2Fsnap%2Flxd%2Fcommon%2Flxd%2Funix.socket"

Kinds == {"storage_pools", "networks", "profiles", "containers"}

\* the names a resource config can carry; for containers one name is a prefix of the other
NamesOf(k) == IF k = "containers" THEN {"a", "ab"} ELSE {"a"}

\* the collection url each subclass passes to Resource.__init__
StoragePool(item) == [collection_url |-> "/1.0/storage-pools", resource_config |-> item]

Network(item) == [collection_url |-> "/1.0/networks", resource_config |-> item]

Profile(item) == [collection_url |-> "/1.0/profiles", resource_config |-> item]

Container(item) == [collection_url |-> "/1.0/containers", resource_config |-> item]

_get_full_collection_url(self) == api_url \o self.collection_url

_get_name(self) == self.resource_config.name

_get_element_url(self) == self.collection_url \o "/" \o _get_name(self)

_get_full_element_url(self) == _get_full_collection_url(self) \o "/" \o _get_name(self)

\* Python truthiness of a string
Truthy(s) == s /= ""

\* any(iterable): some element is truthy
any(seq) == \E i \in 1..Len(seq) : Truthy(seq[i])

\* mutant: nothing is filtered out
filter_Nothing(url, seq) == seq

\* filter(lambda a: a == url, iterable)
filter(url, seq) == SelectSeq(seq, LAMBDA a : a = url)

\* mutant: nothing is ever found in the listing
ExistsIn_Never(self, listing) == FALSE

\* Resource._exists applied to the metadata of the listing response
ExistsIn(self, listing) == any(filter(_get_element_url(self), listing))

\* mutant: any status counts as running
StatusIsRunning_Always(r) == TRUE

\* Container._is_running's test on the detail response
StatusIsRunning(r) == r.status = "Running"

\* `config.get(key) or []`: a missing key (None) and an empty list both give []
GetOrEmpty(c, key) == IF key \in DOMAIN c /\ c[key] /= <<>> THEN c[key] ELSE <<>>

\* a `for item in ...` loop: the resource constructed from each item, in list order
StoragePools(c) ==
    LET items == GetOrEmpty(c, "storage_pools")
    IN  [i \in 1..Len(items) |-> StoragePool(items[i])]

Networks(c) ==
    LET items == GetOrEmpty(c, "networks")
    IN  [i \in 1..Len(items) |-> Network(items[i])]

Profiles(c) ==
    LET items == GetOrEmpty(c, "profiles")
    IN  [i \in 1..Len(items) |-> Profile(items[i])]

Containers(c) ==
    LET items == GetOrEmpty(c, "containers")
    IN  [i \in 1..Len(items) |-> Container(items[i])]

\* the body of a loop: one call of the method on each resource
Calls(resources, method) == [i \in 1..Len(resources) |-> [res |-> resources[i], method |-> method]]

\* mutant: the containers loop comes first
create_ContainersFirst(c) ==
    Calls(Containers(c), "create") \o Calls(StoragePools(c), "create")
    \o Calls(Networks(c), "create") \o Calls(Profiles(c), "create")

\* the lifecycle calls of each command, in the order its loops make them
create(c) ==
    Calls(StoragePools(c), "create") \o Calls(Networks(c), "create")
    \o Calls(Profiles(c), "create") \o Calls(Containers(c), "create")

\* mutant: start goes through the profiles too
start_WithProfiles(c) == Calls(Profiles(c), "start") \o Calls(Containers(c), "start")

start(c) == Calls(Containers(c), "start")

stop(c) == Calls(Containers(c), "stop")

\* mutant: the containers are deleted last declared first
delete_ContainersReversed(c) ==
    Calls([i \in 1..Len(Containers(c)) |-> Containers(c)[Len(Containers(c)) + 1 - i]], "delete")
    \o Calls(Profiles(c), "delete") \o Calls(Networks(c), "delete") \o Calls(StoragePools(c), "delete")

delete(c) ==
    Calls(Containers(c), "delete") \o Calls(Profiles(c), "delete")
    \o Calls(Networks(c), "delete") \o Calls(StoragePools(c), "delete")

\* globals()[args.command](session, config)
Dispatch(command, c) ==
    CASE command = "create" -> create(c)
      [] command = "start" -> start(c)
      [] command = "stop" -> stop(c)
      [] command = "delete" -> delete(c)

Plan == Dispatch(cmd, config)

\* the resource of the lifecycle call in progress
Self == Plan[idx].res

-----------------------------------------------------------------------------
(* The hypervisor (LXD REST API), the environment of the program *)

\* response envelope: type, operation (async), and the metadata the program reads
Resp(type, operation, listing, status, status_code) ==
    [type |-> type, operation |-> operation, listing |-> listing, status |-> status, status_code |-> status_code]

NoResp == Resp("none", "", <<>>, "", 0)

ErrorResp == Resp("error", "", <<>>, "", 0)

NoBody == [empty |-> TRUE]

HCollections == {"/1.0/storage-pools", "/1.0/networks", "/1.0/profiles", "/1.0/containers"}

HNames(c) == IF c = "/1.0/containers" THEN {"a", "ab"} ELSE {"a"}

\* every resource the hypervisor can hold
Universe == {e \in HCollections \X {"a", "ab"} : e[2] \in HNames(e[1])}

\* operation handles the hypervisor hands out
Operations == {"/1.0/operations/1", "/1.0/operations/2"}

\* the handle of an async response: a fresh one for each response of a chain of waits
OperationAt(nest) == IF nest % 2 = 0 THEN "/1.0/operations/1" ELSE "/1.0/operations/2"

StatusCodes == {200, 400}

HPath(e) == e[1] \o "/" \o e[2]

\* the order in which the hypervisor lists names
NameOrder == <<"a", "ab">>

\* the listing of collection c: the paths of its elements, in name order
Listing(c, pres) ==
    LET held(n) == <<c, n>> \in pres
        names == SelectSeq(NameOrder, held)
    IN  [i \in 1..Len(names) |-> HPath(<<c, names[i]>>)]

Outcome(r, pres, run) == [resp |-> r, present |-> pres, running |-> run]

\* a mutating request: refused, or accepted (sync or async) and then honoured (pres2, run2) or dropped
Mutation(pres, run, pres2, run2) ==
    {Outcome(ErrorResp, pres, run)}
    \cup {Outcome(Resp(t, IF t = "async" THEN OperationAt(0) ELSE "", <<>>, "", 0), e[1], e[2]) :
            t \in {"sync", "async"}, e \in {<<pres, run>>, <<pres2, run2>>}}

\* what the hypervisor may do with a request and answer to it
Outcomes(method, url, body, pres, run, nest) ==
    LET coll == {c \in HCollections : url = api_url \o c}
        elem == {e \in Universe : url = api_url \o HPath(e)}
        state == {n \in HNames("/1.0/containers") : url = api_url \o "/1.0/containers/" \o n \o "/state"}
        wait == {o \in Operations : url = api_url \o o \o "/wait"}
    IN  IF method = "GET" /\ coll /= {} THEN
            {Outcome(ErrorResp, pres, run)}
            \cup {Outcome(Resp("sync", "", Listing(c, pres), "", 0), pres, run) : c \in coll}
        ELSE IF method = "GET" /\ elem /= {} THEN
            {Outcome(ErrorResp, pres, run)}
            \cup {Outcome(Resp("sync", "", <<>>, IF e[2] \in run THEN "Running" ELSE "Stopped", 0), pres, run) :
                    e \in elem \cap pres}
        ELSE IF method = "GET" /\ wait /= {} THEN
            {Outcome(ErrorResp, pres, run)}
            \cup {Outcome(Resp("sync", "", <<>>, "", sc), pres, run) : sc \in StatusCodes}
            \cup {Outcome(Resp("async", o, <<>>, "", sc), pres, run) :
                    o \in IF nest < MaxNest THEN {OperationAt(nest + 1)} ELSE {}, sc \in StatusCodes}
        ELSE IF method = "POST" /\ coll /= {} THEN
            UNION {Mutation(pres, run, pres \cup {<<c, body.name>>}, run) : c \in coll}
        ELSE IF method = "DELETE" /\ elem /= {} THEN
            UNION {Mutation(pres, run, pres \ {e}, IF e[1] = "/1.0/containers" THEN run \ {e[2]} ELSE run) : e \in elem}
        ELSE IF method = "PUT" /\ state /= {} THEN
            UNION {Mutation(pres, run, pres,
                            IF body.action = "start"
                                THEN (IF <<"/1.0/containers", n>> \in pres THEN run \cup {n} ELSE run)
                                ELSE run \ {n}) : n \in state}
        ELSE
            {Outcome(ErrorResp, pres, run)}

-----------------------------------------------------------------------------
(* Initial states: any command, any stack document, any hypervisor state.   *)
(* A collection the command makes no lifecycle call on is never read nor   *)
(* written, so it starts empty; so does the set of running containers      *)
(* under create and delete, which never ask for a container's status.      *)

Commands == {"create", "start", "stop", "delete"}

\* the lists a key of the document can hold: no or one item, and more for the
\* containers, which go through the same Resource code
ListsOf(k) ==
    UNION {[1..n -> {[name |-> x] : x \in NamesOf(k)}] :
            n \in (IF k = "containers" THEN 0..MaxContainers ELSE {0, 1})}

\* the documents: each key with one of its lists; a key without items is an empty
\* list, or (all such keys of the document together) is missing
Configs ==
    LET all == UNION {{c \in [D -> UNION {ListsOf(k) : k \in Kinds}] : \A k \in D : c[k] \in ListsOf(k)} : D \in SUBSET Kinds}
    IN  {c \in all : DOMAIN c = Kinds \/ \A k \in DOMAIN c : c[k] /= <<>>}

NoErr == [msg |-> "", body |-> NoResp]

Init ==
    /\ cmd \in Commands
    /\ config \in Configs
    /\ present \in SUBSET {e \in Universe : \E i \in 1..Len(Plan) : Plan[i].res.collection_url = e[1]}
    /\ running \in SUBSET {e[2] : e \in {x \in present : x[1] = "/1.0/containers" /\ cmd \in {"start", "stop"}}}
    /\ idx = 0
    /\ pc = "main"
    /\ stack = <<>>
    /\ result = FALSE
    /\ resp = NoResp
    /\ frames = <<>>
    /\ err = NoErr
    /\ log = <<>>
    /\ muts = <<>>
    /\ touched = {}
    /\ before = <<present, running>>
    /\ initially = <<present, running>>

-----------------------------------------------------------------------------
(* Steps shared by the actions *)

Last(s) == s[Len(s)]

Front(s) == SubSeq(s, 1, Len(s) - 1)

Req(method, url, body) == [method |-> method, url |-> url, body |-> body]

\* mutant: the hook lets a response of type error through
hook_ErrorIgnored(r) ==
    IF r.type = "async" THEN "wait" ELSE "return"

\* mutant: the hook does not wait for an asynchronous operation
hook_NoWait(r) ==
    IF r.type = "error" THEN "raise" ELSE "return"

\* main.hook, lines 150-160: what the hook does with a response
hook(r) ==
    IF r.type = "error" THEN "raise"
    ELSE IF r.type = "async" THEN "wait"
    ELSE "return"

\* session.<method>(url, json=body): the request goes out, the hypervisor acts and
\* answers, and the response hook runs on the response: it raises, or goes on to
\* wait for the operation (line 161), or returns and the call returns to label ret.
\* stk holds the return labels of the calls in progress.
Send(method, url, body, ret, nest, stk) ==
    \E o \in Outcomes(method, url, body, present, running, nest) :
        /\ resp' = o.resp
        /\ present' = o.present
        /\ running' = o.running
        /\ log' = Append(log, [method |-> method, url |-> url, body |-> body, resp |-> o.resp])
        /\ muts' = IF method = "GET" THEN muts ELSE Append(muts, Req(method, url, body))
        /\ touched' = touched \cup {idx}
        /\ pc' = CASE hook(o.resp) = "raise" -> "failed"
                   [] hook(o.resp) = "wait" -> "hook_161"
                   [] OTHER -> ret
        /\ stack' = IF hook(o.resp) = "wait" THEN Append(stk, ret) ELSE stk
        /\ frames' = IF hook(o.resp) = "wait" THEN Append(frames, o.resp) ELSE frames
        /\ err' = IF hook(o.resp) = "raise" THEN [msg |-> "json", body |-> o.resp] ELSE err
        /\ UNCHANGED <<cmd, config, idx, result, before, initially>>

\* return value to the caller
Return(value) ==
    /\ pc' = Last(stack)
    /\ stack' = Front(stack)
    /\ result' = value
    /\ UNCHANGED <<cmd, config, idx, resp, frames, err, log, muts, touched, present, running, before, initially>>

\* raise Exception(...): nothing catches it, the run ends
Raise(msg, body) ==
    /\ pc' = "failed"
    /\ err' = [msg |-> msg, body |-> body]
    /\ UNCHANGED <<cmd, config, idx, stack, result, resp, frames, log, muts, touched, present, running, before, initially>>

-----------------------------------------------------------------------------
(* main.hook, the part that waits for an asynchronous operation *)

\* line 161: GET <operation>/wait through the same session, whose hook runs on the answer
hook_wait ==
    /\ pc = "hook_161"
    /\ Send("GET", api_url \o Last(frames).operation \o "/wait", NoBody, "hook_162", Len(frames) - 1, stack)

\* mutant: a wait that reports a failure is asked again
hook_status_Poll ==
    /\ pc = "hook_162"
    /\ IF resp.status_code /= 200
          THEN /\ pc' = "hook_161"
               /\ UNCHANGED <<stack, resp, frames>>
          ELSE /\ pc' = Last(stack)
               /\ stack' = Front(stack)
               /\ resp' = Last(frames)
               /\ frames' = Front(frames)
    /\ UNCHANGED <<cmd, config, idx, result, err, log, muts, touched, present, running, before, initially>>

\* mutant: the status code of the wait is not looked at
hook_status_Ignored ==
    /\ pc = "hook_162"
    /\ pc' = Last(stack)
    /\ stack' = Front(stack)
    /\ resp' = Last(frames)
    /\ frames' = Front(frames)
    /\ UNCHANGED <<cmd, config, idx, result, err, log, muts, touched, present, running, before, initially>>

\* lines 162-163: a status code other than 200 raises; otherwise the hook returns,
\* and with it the request call that ran it
hook_status ==
    /\ pc = "hook_162"
    /\ IF resp.status_code /= 200
          THEN Raise("wait_json", resp)
          ELSE /\ pc' = Last(stack)
               /\ stack' = Front(stack)
               /\ resp' = Last(frames)
               /\ frames' = Front(frames)
               /\ UNCHANGED <<cmd, config, idx, result, err, log, muts, touched, present, running, before, initially>>

-----------------------------------------------------------------------------
(* Resource *)

\* a call of _exists that returns to the last label of stk; lines 45-47: GET the collection
_exists(stk) == Send("GET", _get_full_collection_url(Self), NoBody, "_exists_47", 0, stk)
   

\* lines 45-48: is the element url in the listing
_exists_return ==
    /\ pc = "_exists_47"
    /\ Return(ExistsIn(Self, resp.listing))

\* lines 24-26
Resource_create ==
    /\ pc = "create"
    /\ _exists(Append(stack, "create_26"))

\* mutant: POST without looking at the existence check
Resource_create_post_Always ==
    /\ pc = "create_26"
    /\ Send("POST", _get_full_collection_url(Self), Self.resource_config, "create_29", 0, stack)

\* lines 26-28: POST the config to the collection unless the resource exists
Resource_create_post ==
    /\ pc = "create_26"
    /\ IF ~result
          THEN Send("POST", _get_full_collection_url(Self), Self.resource_config, "create_29", 0, stack)
          ELSE Return(result)

\* line 29
Resource_create_recheck ==
    /\ pc = "create_29"
    /\ _exists(Append(stack, "create_30"))

\* mutant: a creation that did not show in the listing is tried again
Resource_create_end_Retry ==
    /\ pc = "create_30"
    /\ IF ~result
          THEN /\ pc' = "create_26"
               /\ UNCHANGED <<stack, result>>
          ELSE /\ pc' = Last(stack)
               /\ stack' = Front(stack)
               /\ result' = result
    /\ UNCHANGED <<cmd, config, idx, resp, frames, err, log, muts, touched, present, running, before, initially>>

\* mutant: the post-condition of create is not enforced
Resource_create_end_NoRaise ==
    /\ pc = "create_30"
    /\ Return(result)

\* lines 29-30
Resource_create_end ==
    /\ pc = "create_30"
    /\ IF ~result THEN Raise("resource creation failed", NoResp) ELSE Return(result)

\* lines 34-36
Resource_delete ==
    /\ pc = "delete"
    /\ _exists(Append(stack, "delete_36"))

\* mutant: the DELETE is sent whatever the existence check said
Resource_delete_delete_Always ==
    /\ pc = "delete_36"
    /\ Send("DELETE", _get_full_element_url(Self), NoBody, "delete_39", 0, stack)

\* mutant: the DELETE is never sent
Resource_delete_delete_Never ==
    /\ pc = "delete_36"
    /\ Return(result)

\* lines 36-38: DELETE the element if the resource exists
Resource_delete_delete ==
    /\ pc = "delete_36"
    /\ IF result
          THEN Send("DELETE", _get_full_element_url(Self), NoBody, "delete_39", 0, stack)
          ELSE Return(result)

\* line 39
Resource_delete_recheck ==
    /\ pc = "delete_39"
    /\ _exists(Append(stack, "delete_40"))

\* mutant: the result of the re-check is not looked at
Resource_delete_end_NoRaise ==
    /\ pc = "delete_40"
    /\ Return(result)

\* lines 39-40
Resource_delete_end ==
    /\ pc = "delete_40"
    /\ IF result THEN Raise("resource deletion failed", NoResp) ELSE Return(result)

-----------------------------------------------------------------------------
(* Container *)

\* a call of _is_running that returns to the last label of stk; line 111, left operand of `and`
_is_running(stk) == _exists(Append(stk, "_is_running_and"))

\* mutant: the element is fetched whatever the listing said
_is_running_get_Always ==
    /\ pc = "_is_running_and"
    /\ Send("GET", _get_full_element_url(Self), NoBody, "_is_running_status", 0, stack)

\* line 111: `and` short-circuits; otherwise GET the element
_is_running_get ==
    /\ pc = "_is_running_and"
    /\ IF result
          THEN Send("GET", _get_full_element_url(Self), NoBody, "_is_running_status", 0, stack)
          ELSE Return(FALSE)

\* line 111: metadata.status == "Running"
_is_running_return ==
    /\ pc = "_is_running_status"
    /\ Return(StatusIsRunning(resp))

\* line 93
Container_start ==
    /\ pc = "start"
    /\ _is_running(Append(stack, "start_93"))

\* mutant: the PUT is sent whatever the running check said
Container_start_put_Always ==
    /\ pc = "start_93"
    /\ Send("PUT", _get_full_element_url(Self) \o "/state", [action |-> "start"], "start_96", 0, stack)

\* lines 93-95
Container_start_put ==
    /\ pc = "start_93"
    /\ IF ~result
          THEN Send("PUT", _get_full_element_url(Self) \o "/state", [action |-> "start"], "start_96", 0, stack)
          ELSE Return(result)

\* line 96
Container_start_recheck ==
    /\ pc = "start_96"
    /\ _is_running(Append(stack, "start_97"))

\* lines 96-97
Container_start_end ==
    /\ pc = "start_97"
    /\ IF ~result THEN Raise("container starting failed", NoResp) ELSE Return(result)

\* line 102
Container_stop ==
    /\ pc = "stop"
    /\ _is_running(Append(stack, "stop_102"))

\* mutant: the PUT is sent whatever the running check said
Container_stop_put_Always ==
    /\ pc = "stop_102"
    /\ Send("PUT", _get_full_element_url(Self) \o "/state", [action |-> "stop"], "stop_105", 0, stack)

\* lines 102-104
Container_stop_put ==
    /\ pc = "stop_102"
    /\ IF result
          THEN Send("PUT", _get_full_element_url(Self) \o "/state", [action |-> "stop"], "stop_105", 0, stack)
          ELSE Return(result)

\* line 105
Container_stop_recheck ==
    /\ pc = "stop_105"
    /\ _is_running(Append(stack, "stop_106"))

\* lines 105-106
Container_stop_end ==
    /\ pc = "stop_106"
    /\ IF result THEN Raise("container stopping failed", NoResp) ELSE Return(result)

-----------------------------------------------------------------------------
(* The commands *)

\* mutant: the command catches the failure of a lifecycle call and goes on
main_call_AfterFailure ==
    /\ pc \in {"main", "failed"}
    /\ idx < Len(Plan)
    /\ idx' = idx + 1
    /\ pc' = Plan[idx + 1].method
    /\ stack' = <<"main">>
    /\ log' = <<>>
    /\ result' = FALSE
    /\ resp' = NoResp
    /\ frames' = <<>>
    /\ before' = <<present, running>>
    /\ UNCHANGED <<cmd, config, err, muts, touched, present, running, initially>>

\* the next iteration of the command's loops: construct the resource, make the lifecycle call
main_call ==
    /\ pc = "main"
    /\ idx < Len(Plan)
    /\ idx' = idx + 1
    /\ pc' = Plan[idx + 1].method
    /\ stack' = <<"main">>
    /\ log' = <<>>
    /\ result' = FALSE
    /\ resp' = NoResp
    /\ before' = <<present, running>>
    /\ UNCHANGED <<cmd, config, frames, err, muts, touched, present, running, initially>>

\* the loops are over: session.close()
main_close ==
    /\ pc = "main"
    /\ idx = Len(Plan)
    /\ pc' = "done"
    /\ UNCHANGED <<cmd, config, idx, stack, result, resp, frames, err, log, muts, touched, present, running, before, initially>>

Next ==
    \/ main_call
    \/ main_close
    \/ hook_wait
    \/ hook_status
    \/ _exists_return
    \/ Resource_create
    \/ Resource_create_post
    \/ Resource_create_recheck
    \/ Resource_create_end
    \/ Resource_delete
    \/ Resource_delete_delete
    \/ Resource_delete_recheck
    \/ Resource_delete_end
    \/ _is_running_get
    \/ _is_running_return
    \/ Container_start
    \/ Container_start_put
    \/ Container_start_recheck
    \/ Container_start_end
    \/ Container_stop
    \/ Container_stop_put
    \/ Container_stop_recheck
    \/ Container_stop_end

Spec == Init /\ [][Next]_vars

\* a document whose keys are all there and which, under start and stop, lists
\* containers only: every other document gives the same lifecycle calls as one of
\* these (`config.get(key) or []`; start and stop read the containers key alone)
Canonical(command, c) ==
    /\ DOMAIN c = Kinds
    /\ command \in {"start", "stop"} => \A k \in Kinds \ {"containers"} : c[k] = <<>>

InitFair == Init /\ Canonical(cmd, config)

\* the program is one thread that runs on, and every request it sends is answered
SpecFair == InitFair /\ [][Next]_vars /\ WF_vars(Next)

-----------------------------------------------------------------------------
(* _exists on its own: the program has just received the answer to the     *)
(* listing request of a create(), and the answer lists anything             *)

\* what a listing entry can be: an element path of any collection, or something else
Entries == {HPath(e) : e \in Universe} \cup {"/1.0/containers", "a", ""}

AnyListings == UNION {[1..n -> Entries] : n \in 0..MaxListing}

OneResource == {c \in Configs : Len(create(c)) = 1 /\ \A k \in DOMAIN c : c[k] /= <<>>}

InitExists ==
    /\ cmd = "create"
    /\ config \in OneResource
    /\ idx = 1
    /\ pc = "_exists_47"
    /\ stack = <<"main", "create_26">>
    /\ result = FALSE
    /\ resp \in {Resp("sync", "", l, "", 0) : l \in AnyListings}
    /\ frames = <<>>
    /\ err = NoErr
    /\ log = <<[method |-> "GET", url |-> _get_full_collection_url(Self), body |-> NoBody, resp |-> resp]>>
    /\ muts = <<>>
    /\ touched = {1}
    /\ present = {}
    /\ running = {}
    /\ before = <<{}, {}>>
    /\ initially = <<{}, {}>>

SpecExists == InitExists /\ [][_exists_return]_vars

-----------------------------------------------------------------------------
(* Vocabulary of the properties *)

\* <collection path>/<name>, the element path of a resource
ElementPath(r) == r.collection_url \o "/" \o r.resource_config.name

\* the resource as the hypervisor holds it
Elem(r) == <<r.collection_url, r.resource_config.name>>

\* some entry of the listing is exactly the path
Listed(path, listing) == \E i \in 1..Len(listing) : listing[i] = path

\* the lifecycle call in progress, or the last one made, is a call of method m
InCall(m) == idx >= 1 /\ cmd = m /\ Plan[idx].method = m

\* the last lifecycle call made has returned to the command
Returned == idx >= 1 /\ pc \in {"main", "done"}

IsMutating(e) == e.method /= "GET"

IsListingGet(e, r) == e.method = "GET" /\ e.url = api_url \o r.collection_url

IsDetailGet(e, r) == e.method = "GET" /\ e.url = api_url \o ElementPath(r)

IsWaitGet(e) == e.method = "GET" /\ \E o \in Operations : e.url = api_url \o o \o "/wait"

IsPostOf(e, r) == e.method = "POST" /\ e.url = api_url \o r.collection_url /\ e.body = r.resource_config

\* how many requests of a sequence satisfy a test
Count(seq, Test(_)) == Cardinality({i \in 1..Len(seq) : Test(seq[i])})

-----------------------------------------------------------------------------
(* The hypervisor has other clients: while start() is at work on a container *)
(* that is not there, one of them may create and start that container       *)

OtherClient ==
    /\ cmd = "start"
    /\ idx >= 1
    /\ pc \notin {"main", "done", "failed"}
    /\ Elem(Self) \notin present
    /\ present' = present \cup {Elem(Self)}
    /\ running' = running \cup {_get_name(Self)}
    /\ UNCHANGED <<cmd, config, idx, pc, stack, result, resp, frames, err, log, muts, touched, before, initially>>

NextOther == Next \/ OtherClient

SpecOther == Init /\ [][NextOther]_vars

-----------------------------------------------------------------------------
(* Runs in a row: the program is run with create or delete, again and again, *)
(* on one document whose names are unique per collection, against a          *)
(* hypervisor that honours every request and has no other client             *)

\* no name twice in one list of the document
UniqueNames(c) ==
    \A k \in DOMAIN c : \A i, j \in 1..Len(c[k]) : c[k][i].name = c[k][j].name => i = j

\* the answer just received is not an error, a wait reports success, and the
\* resource a POST names is there, the resource a DELETE names is gone
Honoured ==
    /\ resp.type /= "error"
    /\ resp.status_code \in {0, 200}
    /\ log /= <<>> =>
            LET e == Last(log)
            IN  /\ e.method = "POST" =>
                        \E c \in HCollections : e.url = api_url \o c /\ <<c, e.body.name>> \in present
                /\ e.method = "DELETE" =>
                        \A x \in Universe : e.url = api_url \o HPath(x) => x \notin present

\* a step of a create or delete run, honoured by the hypervisor
HonouredStep ==
    /\ \/ main_call
       \/ main_close
       \/ hook_wait
       \/ hook_status
       \/ _exists_return
       \/ Resource_create
       \/ Resource_create_post
       \/ Resource_create_recheck
       \/ Resource_create_end
       \/ Resource_delete
       \/ Resource_delete_delete
       \/ Resource_delete_recheck
       \/ Resource_delete_end
    /\ Honoured'

\* the run is over; the program is run again with one of the two commands
main_again ==
    /\ pc = "done"
    /\ cmd' \in {"create", "delete"}
    /\ idx' = 0
    /\ pc' = "main"
    /\ stack' = <<>>
    /\ result' = FALSE
    /\ resp' = NoResp
    /\ frames' = <<>>
    /\ err' = NoErr
    /\ log' = <<>>
    /\ muts' = <<>>
    /\ touched' = {}
    /\ before' = <<present, running>>
    /\ initially' = <<present, running>>
    /\ UNCHANGED <<config, present, running>>

\* the first run is a create; none of the declared resources is there
InitRoundTrip ==
    /\ cmd = "create"
    /\ config \in {c \in Configs : UniqueNames(c)}
    /\ present \in SUBSET {e \in Universe :
                            /\ \E i \in 1..Len(Plan) : Plan[i].res.collection_url = e[1]
                            /\ \A i \in 1..Len(Plan) : Elem(Plan[i].res) /= e}
    /\ running = {}
    /\ idx = 0
    /\ pc = "main"
    /\ stack = <<>>
    /\ result = FALSE
    /\ resp = NoResp
    /\ frames = <<>>
    /\ err = NoErr
    /\ log = <<>>
    /\ muts = <<>>
    /\ touched = {}
    /\ before = <<present, running>>
    /\ initially = <<present, running>>

NextRoundTrip == HonouredStep \/ main_again

SpecRoundTrip == InitRoundTrip /\ [][NextRoundTrip]_vars

-----------------------------------------------------------------------------
(* C1 *)

\* the call in progress is a create() that follows a create() on the same spec
SecondCreate == idx >= 2 /\ Plan[idx].method = "create" /\ Plan[idx - 1] = Plan[idx]

PostsOfSelf == LET t(e) == IsPostOf(e, Self) IN Count(muts, t)

\* C1: of two consecutive create() calls on the same spec the second issues no
\* mutating request and does not fail (unless the hypervisor refuses its listing
\* request); the two calls issue at most one POST, and exactly one when the
\* resource was absent before the first call.
C1_CreateIdempotent ==
    SecondCreate =>
        /\ Count(log, IsMutating) = 0
        /\ pc = "failed" => err.msg = "json"
        /\ PostsOfSelf <= 1
        /\ (Elem(Self) \notin initially[1] /\ \A k \in 1..(idx - 2) : Plan[k].res /= Self) => PostsOfSelf = 1

\* the second create() of an initially absent resource has returned, after one POST in all
C1_Witness ==
    /\ SecondCreate
    /\ Returned
    /\ Elem(Self) \notin initially[1]
    /\ PostsOfSelf = 1
    /\ Len(log) = 1

-----------------------------------------------------------------------------
(* C2 *)

\* the call in progress POSTed, and its re-check was answered with a listing without the element path
RecheckedAbsent ==
    /\ Len(log) >= 3
    /\ \E k \in 1..(Len(log) - 1) : log[k].method = "POST"
    /\ IsListingGet(Last(log), Self)
    /\ Last(log).resp.type = "sync"
    /\ ~Listed(ElementPath(Self), Last(log).resp.listing)

\* C2: a create() whose POST returned and whose re-check finds the resource still
\* absent fails with "resource creation failed"; a create() that returned normally
\* last observed a collection listing that contains the element path.
C2_CreatePostcondition ==
    InCall("create") =>
        /\ (RecheckedAbsent /\ pc \notin {"_exists_47", "create_30"}) =>
                (pc = "failed" /\ err.msg = "resource creation failed")
        /\ Returned =>
                /\ log /= <<>>
                /\ IsListingGet(Last(log), Self)
                /\ Listed(ElementPath(Self), Last(log).resp.listing)

\* a create() failed on its post-condition
C2_Witness ==
    /\ InCall("create")
    /\ RecheckedAbsent
    /\ pc = "failed"
    /\ err.msg = "resource creation failed"

-----------------------------------------------------------------------------
(* C3 *)

\* C3: the request after one answered with type async and handle H is the GET of
\* H/wait, and until that wait is answered and checked the triggering call has not
\* returned; so no re-check (listing GET) is issued between an async response and
\* the answer to its wait.
C3_WaitBeforeReturn ==
    /\ \A i \in 1..Len(log) :
            log[i].resp.type = "async" =>
                IF i = Len(log)
                    THEN pc = "hook_161" /\ frames /= <<>> /\ Last(frames) = log[i].resp
                    ELSE /\ log[i + 1].method = "GET"
                         /\ log[i + 1].url = api_url \o log[i].resp.operation \o "/wait"
    /\ frames /= <<>> => pc \in {"hook_161", "hook_162", "failed"}

\* a state change answered async, then its wait, then the re-check
C3_Witness ==
    /\ InCall("start")
    /\ \E i \in 1..Len(log) :
            /\ log[i].method = "PUT"
            /\ log[i].resp.type = "async"
            /\ i + 2 <= Len(log)
            /\ IsWaitGet(log[i + 1])
            /\ IsListingGet(log[i + 2], Self)

-----------------------------------------------------------------------------
(* C4 *)

\* position in log of the mutating request of the call in progress (0: none yet)
MutatingAt == IF \E k \in 1..Len(log) : IsMutating(log[k]) THEN CHOOSE k \in 1..Len(log) : IsMutating(log[k]) ELSE 0

\* log[i] is a wait whose response carries a status code: how deep in the chain of waits it is;
\* the response that caused it is frames[WaitDepth(i)] as long as its call has not returned
WaitDepth(i) == i - MutatingAt

CarriesStatus(e) == IsWaitGet(e) /\ e.resp.type /= "error"

\* after a wait response with a status code other than 200 the operation is aborted:
\* nothing but nested waits is requested any more and no lifecycle code runs again
AbortedAfter(i) ==
    /\ \A j \in (i + 1)..Len(log) : IsWaitGet(log[j])
    /\ pc \in {"hook_161", "hook_162", "failed"}

\* C4 as stated: a wait response with a status code other than 200 fails the
\* triggering call with that wait response and aborts the operation before its
\* re-check; with status code 200 the triggering call returns normally, whatever
\* the type of the wait response.
C4_AsStated ==
    \A i \in 1..Len(log) :
        CarriesStatus(log[i]) =>
            IF log[i].resp.status_code /= 200
                THEN /\ AbortedAfter(i)
                     /\ pc = "failed" => err.body = log[i].resp
                ELSE pc = "failed" => Len(frames) < WaitDepth(i)

\* C4 (amended): a wait response with a status code other than 200 aborts the
\* operation before its re-check, and when that response is of type sync the
\* failure carries it; a wait response of type sync with status code 200 makes the
\* triggering call return normally.
C4_WaitStatus ==
    \A i \in 1..Len(log) :
        CarriesStatus(log[i]) =>
            IF log[i].resp.status_code /= 200
                THEN /\ AbortedAfter(i)
                     /\ (pc = "failed" /\ log[i].resp.type = "sync") =>
                            err = [msg |-> "wait_json", body |-> log[i].resp]
                ELSE log[i].resp.type = "sync" =>
                        (Len(frames) >= WaitDepth(i) => (pc = "hook_162" /\ i = Len(log)))

\* a state change was answered async and its wait with a failure: the run failed with the wait response
C4_Witness ==
    /\ pc = "failed"
    /\ err.msg = "wait_json"
    /\ Len(log) >= 2
    /\ log[Len(log) - 1].method \in {"POST", "PUT", "DELETE"}
    /\ log[Len(log) - 1].resp.type = "async"
    /\ IsWaitGet(Last(log))
    /\ Last(log).resp.type = "sync"
    /\ Last(log).resp.status_code = 400
    /\ err.body = Last(log).resp

-----------------------------------------------------------------------------
(* C5 *)

\* C5: _exists returns true exactly when some entry of the listing equals
\* <collection path>/<name>, whatever else the listing holds and in whatever order.
C5_ExistsIffListed ==
    (idx >= 1 /\ pc \in {"create_26", "create_30", "delete_36", "delete_40", "_is_running_and"}) =>
        (result <=> Listed(ElementPath(Self), resp.listing))

\* the path comes second, after an entry of which it is a prefix: found
C5_Witness ==
    /\ pc = "create_26"
    /\ Self = Container([name |-> "a"])
    /\ resp.listing = <<"/1.0/containers/ab", "/1.0/containers/a">>
    /\ result = TRUE

-----------------------------------------------------------------------------
(* C6 *)

\* the collection a POST or DELETE of the run is addressed to
CollectionOf(m) ==
    CHOOSE c \in HCollections :
        \/ m.url = api_url \o c
        \/ \E n \in HNames(c) : m.url = api_url \o c \o "/" \o n

Rank(c) ==
    CASE c = "/1.0/storage-pools" -> 1
      [] c = "/1.0/networks" -> 2
      [] c = "/1.0/profiles" -> 3
      [] c = "/1.0/containers" -> 4

AllPopulated == DOMAIN config = Kinds /\ \A k \in Kinds : config[k] /= <<>>

AllAbsentAtFirst == \A i \in 1..Len(Plan) : Elem(Plan[i].res) \notin initially[1]

AllPresentAtFirst == \A i \in 1..Len(Plan) : Elem(Plan[i].res) \in initially[1]

\* C6: the create command issues its POSTs in the order storage pools, networks,
\* profiles, containers and the delete command its DELETEs in the order containers,
\* profiles, networks, storage pools; with all four collections populated and all
\* resources absent (present), a completed create (delete) has issued a POST
\* (DELETE) to every collection.
C6_CollectionOrder ==
    /\ cmd = "create" =>
            /\ \A i \in 1..Len(muts) :
                    /\ muts[i].method = "POST"
                    /\ \A j \in (i + 1)..Len(muts) :
                            Rank(CollectionOf(muts[i])) <= Rank(CollectionOf(muts[j]))
            /\ (pc = "done" /\ AllPopulated /\ AllAbsentAtFirst) =>
                    \A c \in HCollections : \E i \in 1..Len(muts) : muts[i].url = api_url \o c
    /\ cmd = "delete" =>
            /\ \A i \in 1..Len(muts) :
                    /\ muts[i].method = "DELETE"
                    /\ \A j \in (i + 1)..Len(muts) :
                            Rank(CollectionOf(muts[i])) >= Rank(CollectionOf(muts[j]))
            /\ (pc = "done" /\ AllPopulated /\ AllPresentAtFirst) =>
                    \A c \in HCollections : \E i \in 1..Len(muts) : CollectionOf(muts[i]) = c

\* a create of four absent resources, one per collection, has run to its end
C6_Witness ==
    /\ cmd = "create"
    /\ pc = "done"
    /\ AllPopulated
    /\ AllAbsentAtFirst
    /\ Len(muts) = 4
    /\ [i \in 1..4 |-> CollectionOf(muts[i])]
            = <<"/1.0/storage-pools", "/1.0/networks", "/1.0/profiles", "/1.0/containers">>

-----------------------------------------------------------------------------
(* C7 *)

\* the call in progress, or the last one made, is a delete() of a resource that
\* the hypervisor did not hold when the call was made
DeleteOfAbsent == InCall("delete") /\ Elem(Self) \notin before[1]

\* no request of the call was answered with an error
NoErrorAnswer == \A k \in 1..Len(log) : log[k].resp.type /= "error"

\* C7 as stated: delete() on a resource absent from the hypervisor issues zero
\* requests and succeeds (read for a hypervisor that refuses nothing).
C7_AsStated == (DeleteOfAbsent /\ NoErrorAnswer) => (log = <<>> /\ pc /= "failed")

\* C7 (amended): delete() on a resource absent from the hypervisor issues one
\* request, the listing GET of its existence check, and no mutating request; it
\* succeeds unless that GET is answered with an error.
C7_DeleteAbsentNoMutation ==
    DeleteOfAbsent =>
        /\ Len(log) <= 1
        /\ \A k \in 1..Len(log) : IsListingGet(log[k], Self)
        /\ present = before[1]
        /\ pc = "failed" => (Len(log) = 1 /\ log[1].resp.type = "error" /\ err.msg = "json")
        /\ Returned => Len(log) = 1

\* a delete() of an absent resource has returned after its listing GET
C7_Witness ==
    /\ DeleteOfAbsent
    /\ pc = "main"
    /\ Len(log) = 1
    /\ IsListingGet(log[1], Self)
    /\ log[1].resp.type = "sync"

-----------------------------------------------------------------------------
(* C8 *)

\* the call has come to its end: it returned to the command, or it failed
Ended == idx >= 1 /\ pc \in {"main", "done", "failed"}

IsDeleteOf(e, r) == e.method = "DELETE" /\ e.url = api_url \o ElementPath(r) /\ e.body = NoBody

\* log[k] is the answer to a listing GET of resource r, and it lists r
Lists(k, r) ==
    /\ k \in 1..Len(log)
    /\ IsListingGet(log[k], r)
    /\ Listed(ElementPath(r), log[k].resp.listing)

\* log[k] is the answer to a listing GET of resource r, and it does not list r
ListsNot(k, r) ==
    /\ k \in 1..Len(log)
    /\ IsListingGet(log[k], r)
    /\ log[k].resp.type = "sync"
    /\ ~Listed(ElementPath(r), log[k].resp.listing)

ListsSelf(k) == Lists(k, Self)

ListsNotSelf(k) == ListsNot(k, Self)

\* C8: delete() first lists the collection; it issues a DELETE on the element path
\* exactly when that listing holds the path, and only one; it then lists the
\* collection again and fails with "resource deletion failed" exactly when the path
\* is still listed; it returns only when the last listing it got lacks the path.
C8_DeleteProtocol ==
    InCall("delete") =>
        LET r == Self
            first == Lists(1, r)
            last == Lists(Len(log), r)
        IN  /\ log /= <<>> => IsListingGet(log[1], r)
            /\ \A k \in 1..Len(log) : IsMutating(log[k]) => (k = 2 /\ IsDeleteOf(log[k], r) /\ first)
            /\ (first /\ pc \notin {"_exists_47", "delete_36"}) => (Len(log) >= 2 /\ IsDeleteOf(log[2], r))
            /\ (Ended /\ last /\ Len(log) > 2) => (pc = "failed" /\ err.msg = "resource deletion failed")
            /\ (pc = "failed" /\ err.msg = "resource deletion failed") => (last /\ Len(log) > 2)
            /\ Returned => ListsNot(Len(log), r)
            /\ (Returned /\ first) => Len(log) > 2

\* the DELETE was accepted but the resource is still listed: the call failed
C8_Witness ==
    /\ InCall("delete")
    /\ pc = "failed"
    /\ err.msg = "resource deletion failed"
    /\ ListsSelf(1)
    /\ IsDeleteOf(log[2], Self)
    /\ ListsSelf(Len(log))

-----------------------------------------------------------------------------
(* C9 *)

\* _is_running has just returned to start() or stop()
IsRunningReturned == idx >= 1 /\ pc \in {"start_93", "start_97", "stop_102", "stop_106"}

\* the last two requests were the listing GET, which lists the container, and
\* the detail GET, which says "Running"
SeenRunning ==
    /\ Len(log) >= 2
    /\ ListsSelf(Len(log) - 1)
    /\ IsDetailGet(Last(log), Self)
    /\ Last(log).resp.status = "Running"

\* C9: _is_running returns true exactly when the listing holds the container's path
\* and the detail response has status "Running"; it returns false, without asking
\* for the detail, when the path is not listed, and false when the status is
\* another one; a container the hypervisor does not hold or does not run gives false.
C9_IsRunning ==
    IsRunningReturned =>
        /\ result <=> SeenRunning
        /\ ~result =>
                \/ ListsNotSelf(Len(log))
                \/ /\ Len(log) >= 2
                   /\ ListsSelf(Len(log) - 1)
                   /\ IsDetailGet(Last(log), Self)
                   /\ Last(log).resp.status = "Stopped"
        /\ result <=> (Elem(Self) \in present /\ _get_name(Self) \in running)

\* the container is listed and its status is "Running": true
C9_Witness ==
    /\ pc = "stop_102"
    /\ result = TRUE
    /\ SeenRunning
    /\ Len(log) = 2

-----------------------------------------------------------------------------
(* C10 *)

IsPutOf(e, r, action) ==
    /\ e.method = "PUT"
    /\ e.url = api_url \o ElementPath(r) \o "/state"
    /\ e.body = [action |-> action]

\* the running check start() or stop() begins with said "running"
RunningAtFirst ==
    /\ Len(log) >= 2
    /\ ListsSelf(1)
    /\ IsDetailGet(log[2], Self)
    /\ log[2].resp.status = "Running"

\* the running check start() or stop() begins with has been answered "not running"
NotRunningAtFirst ==
    \/ ListsNotSelf(1)
    \/ /\ Len(log) >= 2
       /\ ListsSelf(1)
       /\ IsDetailGet(log[2], Self)
       /\ log[2].resp.status = "Stopped"

\* C10: start() issues a PUT on <element>/state with action start exactly when its
\* first running check is false, and only one; it then checks again and fails with
\* "container starting failed" exactly when the check is still false; when the
\* container runs already it issues no state-change request and returns.
C10_StartProtocol ==
    InCall("start") =>
        /\ \A k \in 1..Len(log) : IsMutating(log[k]) =>
                /\ IsPutOf(log[k], Self, "start")
                /\ NotRunningAtFirst
                /\ \A j \in 1..Len(log) : IsMutating(log[j]) => j = k
        /\ (NotRunningAtFirst /\ pc \notin {"_exists_47", "_is_running_and", "_is_running_status", "start_93"}) =>
                \E k \in 1..Len(log) : IsPutOf(log[k], Self, "start")
        /\ RunningAtFirst =>
                /\ \A k \in 1..Len(log) : ~IsMutating(log[k])
                /\ Len(log) = 2
                /\ pc /= "failed"
        /\ (pc = "failed" /\ err.msg = "container starting failed") =>
                /\ \E k \in 1..Len(log) : IsPutOf(log[k], Self, "start")
                /\ ~SeenRunning
        /\ (Returned /\ NotRunningAtFirst) => (SeenRunning /\ ~IsMutating(Last(log)) /\ Len(log) >= 5)

\* a stopped container was started: one PUT, and the second check says "Running"
C10_Witness ==
    /\ InCall("start")
    /\ pc = "main"
    /\ NotRunningAtFirst
    /\ Len(log) >= 5
    /\ IsPutOf(log[3], Self, "start")
    /\ SeenRunning

-----------------------------------------------------------------------------
(* C11 *)

\* log[k - 1] and log[k] are a running check of container r that said "running":
\* the listing holds r and the detail GET says "Running"
SawRunning(k, r) ==
    /\ k \in 2..Len(log)
    /\ Lists(k - 1, r)
    /\ IsDetailGet(log[k], r)
    /\ log[k].resp.status = "Running"

\* the first running check of the call on container r was answered "not running"
SawNotRunningAtFirst(r) ==
    \/ ListsNot(1, r)
    \/ /\ Len(log) >= 2
       /\ Lists(1, r)
       /\ IsDetailGet(log[2], r)
       /\ log[2].resp.status = "Stopped"

\* C11: stop() issues a PUT on <element>/state with action stop exactly when its
\* first running check is true, and only one; it then checks again and fails with
\* "container stopping failed" exactly when the check is still true; when the
\* container is stopped already, or is not listed at all, it issues no state-change
\* request and returns.
C11_StopProtocol ==
    InCall("stop") =>
        LET r == Self
            first == SawRunning(2, r)
            last == SawRunning(Len(log), r)
            put == \E k \in 1..Len(log) : IsPutOf(log[k], r, "stop")
        IN  /\ \A k \in 1..Len(log) : IsMutating(log[k]) =>
                    /\ IsPutOf(log[k], r, "stop")
                    /\ first
                    /\ k = 3
            /\ (first /\ pc \notin {"_is_running_status", "stop_102"}) => put
            /\ SawNotRunningAtFirst(r) =>
                    /\ ~put
                    /\ Len(log) <= 2
                    /\ pc /= "failed"
            /\ (pc = "failed" /\ err.msg = "container stopping failed") => (put /\ last /\ Len(log) >= 5)
            /\ (Ended /\ put /\ last) => (pc = "failed" /\ err.msg = "container stopping failed")
            /\ (Returned /\ first) => (put /\ ~last /\ ~IsMutating(Last(log)))

\* a running container was stopped: one PUT, and the second check is not "Running"
C11_Witness ==
    /\ InCall("stop")
    /\ Returned
    /\ SawRunning(2, Self)
    /\ IsPutOf(log[3], Self, "stop")
    /\ Len(log) = 5
    /\ Last(log).resp.status = "Stopped"

-----------------------------------------------------------------------------
(* C12 *)

\* C12: a response of type error to any request (listing, mutating request, detail
\* or wait) fails the call at once with the decoded body: the request is the last
\* one of the call, the run has failed carrying that response, and a run that has
\* raised never goes on.
C12_ErrorAborts ==
    /\ \A k \in 1..Len(log) :
            log[k].resp.type = "error" =>
                /\ k = Len(log)
                /\ pc = "failed"
                /\ err = [msg |-> "json", body |-> log[k].resp]
    /\ err /= NoErr => pc = "failed"
    /\ pc = "failed" => err /= NoErr

\* the POST of a create() was answered with an error: no re-check follows
C12_Witness ==
    /\ InCall("create")
    /\ pc = "failed"
    /\ Len(log) = 2
    /\ log[2].method = "POST"
    /\ log[2].resp.type = "error"
    /\ err.body = log[2].resp

-----------------------------------------------------------------------------
(* C13 *)

\* the hypervisor holds the effect of lifecycle call i of the run
Applied(r) ==
    LET e == Elem(r)
    IN  CASE cmd = "create" -> e \in present
          [] cmd = "delete" -> e \notin present
          [] cmd = "start" -> e \in present /\ e[2] \in running
          [] cmd = "stop" -> e[2] \notin running

\* the one kind of mutating request a command issues
Forward(m) ==
    CASE cmd = "create" -> m.method = "POST"
      [] cmd = "delete" -> m.method = "DELETE"
      [] cmd = "start" -> m.method = "PUT" /\ m.body = [action |-> "start"]
      [] cmd = "stop" -> m.method = "PUT" /\ m.body = [action |-> "stop"]

\* C13: when the lifecycle call of the k-th resource fails the run stops there: no
\* request has been or will be issued for a later resource, no request undoes what
\* was done for the earlier resources, and the hypervisor still holds their effects.
C13_NoTransaction ==
    /\ touched \subseteq 1..idx
    /\ err /= NoErr => pc = "failed"
    /\ \A i \in 1..Len(muts) : Forward(muts[i])
    /\ idx >= 2 =>
            LET plan == Plan
            IN  \A i \in 1..(idx - 1) : Applied(plan[i].res)

\* the second create() of three failed: the first resource, absent at first, is
\* there, and nothing was asked about the third
C13_Witness ==
    /\ cmd = "create"
    /\ pc = "failed"
    /\ idx = 2
    /\ Len(Plan) >= 3
    /\ Elem(Plan[1].res) \notin initially[1]
    /\ Elem(Plan[1].res) \in present
    /\ Len(muts) >= 1
    /\ touched = {1, 2}

-----------------------------------------------------------------------------
(* C14 *)

\* the resource a POST of the run would create or overwrite
TargetOfPost(m) == <<CollectionOf(m), m.body.name>>

\* the three shapes of mutating request
IsCollectionPost(m) == m.method = "POST" /\ \E c \in HCollections : m.url = api_url \o c

IsElementDelete(m) == m.method = "DELETE" /\ \E e \in Universe : m.url = api_url \o HPath(e)

IsStatePut(m) ==
    /\ m.method = "PUT"
    /\ \E e \in Universe : e[1] = "/1.0/containers" /\ m.url = api_url \o HPath(e) \o "/state"

\* C14: a create() on a resource the hypervisor already holds issues no mutating
\* request and leaves the hypervisor as it was, so no POST of a create run is ever
\* addressed to a resource that was there before the run and every such resource
\* is still there; every mutating request of any run is a POST on a collection, a
\* DELETE on an element or a PUT on <element>/state.
C14_NoInPlaceMutation ==
    /\ \A i \in 1..Len(muts) : IsCollectionPost(muts[i]) \/ IsElementDelete(muts[i]) \/ IsStatePut(muts[i])
    /\ cmd = "create" =>
            /\ \A i \in 1..Len(muts) : TargetOfPost(muts[i]) \notin initially[1]
            /\ initially[1] \subseteq present
            /\ (idx >= 1 /\ Elem(Self) \in before[1]) =>
                    /\ \A k \in 1..Len(log) : ~IsMutating(log[k])
                    /\ Len(log) <= 1
                    /\ present = before[1]

\* a create run is over: its first resource was there before and got no POST,
\* another one was created
C14_Witness ==
    /\ cmd = "create"
    /\ pc = "done"
    /\ Len(Plan) >= 2
    /\ Elem(Plan[1].res) \in initially[1]
    /\ Len(muts) = 1
    /\ TargetOfPost(muts[1]) /= Elem(Plan[1].res)

-----------------------------------------------------------------------------
(* C15 *)

\* the document has the key and the key has items
Has(k) == k \in DOMAIN config /\ config[k] /= <<>>

\* the resources the document declares to the command: those of every key that
\* has items, and of the containers key alone under start and stop
Declared ==
    (IF Has("storage_pools") /\ cmd \in {"create", "delete"}
        THEN {StoragePool(config["storage_pools"][i]) : i \in 1..Len(config["storage_pools"])} ELSE {})
    \cup (IF Has("networks") /\ cmd \in {"create", "delete"}
        THEN {Network(config["networks"][i]) : i \in 1..Len(config["networks"])} ELSE {})
    \cup (IF Has("profiles") /\ cmd \in {"create", "delete"}
        THEN {Profile(config["profiles"][i]) : i \in 1..Len(config["profiles"])} ELSE {})
    \cup (IF Has("containers")
        THEN {Container(config["containers"][i]) : i \in 1..Len(config["containers"])} ELSE {})

\* the urls of the requests a lifecycle call makes about its resource
OwnUrls(r) ==
    {api_url \o r.collection_url, api_url \o ElementPath(r), api_url \o ElementPath(r) \o "/state"}

\* C15: a collection key that is missing or empty counts as an empty sequence: the
\* lifecycle calls of the command (fixed when the run begins, as the document and
\* the command are) are those of the declared resources, every
\* request other than a wait is about a declared resource: its collection, its
\* path or its state (under start and stop: a container), so no request goes to a
\* collection without declared resources, and a run that meets no failure
\* processes every declared resource.
C15_AbsentCollections ==
    LET declared == Declared
    IN  /\ idx = 0 => {Plan[i].res : i \in 1..Len(Plan)} = declared
        /\ log /= <<>> =>
                LET r == Self
                    own == OwnUrls(r)
                IN  /\ r \in declared
                    /\ cmd \in {"start", "stop"} => r.collection_url = "/1.0/containers"
                    /\ \A k \in 1..Len(log) :
                            \/ log[k].url \in own
                            \/ IsWaitGet(log[k])
        /\ pc = "done" => touched = 1..Len(Plan)
        /\ (pc = "failed" /\ log = <<>>) => FALSE

\* a create with the storage_pools and profiles keys missing has run to its end
\* and created the network and the container
C15_Witness ==
    /\ cmd = "create"
    /\ pc = "done"
    /\ DOMAIN config = {"networks", "containers"}
    /\ Len(Plan) = 2
    /\ Len(muts) = 2
    /\ touched = {1, 2}

-----------------------------------------------------------------------------
(* C16 *)

\* the resources of the lifecycle calls made on collection c, in the order of the calls
CalledOn(c) ==
    LET calls == SelectSeq(Plan, LAMBDA x : x.res.collection_url = c)
    IN  [i \in 1..Len(calls) |-> calls[i].res]

\* the containers as the document declares them
DeclaredContainers ==
    IF Has("containers")
        THEN [i \in 1..Len(config["containers"]) |-> Container(config["containers"][i])]
        ELSE <<>>

DeclaredProfiles ==
    IF Has("profiles") /\ cmd \in {"create", "delete"}
        THEN [i \in 1..Len(config["profiles"]) |-> Profile(config["profiles"][i])]
        ELSE <<>>

DeclaredNetworks ==
    IF Has("networks") /\ cmd \in {"create", "delete"}
        THEN [i \in 1..Len(config["networks"]) |-> Network(config["networks"][i])]
        ELSE <<>>

DeclaredStoragePools ==
    IF Has("storage_pools") /\ cmd \in {"create", "delete"}
        THEN [i \in 1..Len(config["storage_pools"]) |-> StoragePool(config["storage_pools"][i])]
        ELSE <<>>

\* the first lifecycle call of the run on the resource a mutating request addresses
FirstCallOn(plan, paths, m) ==
    CHOOSE i \in 1..Len(plan) :
        /\ IF m.method = "POST"
              THEN IsPostOf(m, plan[i].res)
              ELSE m.url = paths[i] \/ m.url = paths[i] \o "/state"
        /\ \A j \in 1..(i - 1) : plan[j].res /= plan[i].res

\* C16: the lifecycle calls on one collection (fixed when the run begins) are in
\* the order the document declares its specs, under delete and stop as under
\* create and start; a call
\* begins when the one before has returned, its requests are about its own
\* resource, and the mutating requests of a run follow the order of the calls.
C16_DeclarationOrder ==
    /\ idx = 0 =>
            /\ CalledOn("/1.0/containers") = DeclaredContainers
            /\ CalledOn("/1.0/profiles") = DeclaredProfiles
            /\ CalledOn("/1.0/networks") = DeclaredNetworks
            /\ CalledOn("/1.0/storage-pools") = DeclaredStoragePools
    /\ touched \in {1..idx, 1..(idx - 1)}
    /\ pc \in {"create", "delete", "start", "stop"} => (stack = <<"main">> /\ frames = <<>> /\ log = <<>>)
    /\ log /= <<>> =>
            LET own == OwnUrls(Self)
            IN  \A k \in 1..Len(log) : log[k].url \in own \/ IsWaitGet(log[k])
    /\ Len(muts) >= 2 =>
            LET plan == Plan
                paths == [i \in 1..Len(plan) |-> api_url \o ElementPath(plan[i].res)]
                calls == [i \in 1..Len(muts) |-> FirstCallOn(plan, paths, muts[i])]
            IN  \A i \in 1..(Len(muts) - 1) : calls[i] < calls[i + 1]

\* a delete of containers a and ab, declared in that order and both there, has
\* run to its end: a was deleted first
C16_Witness ==
    /\ cmd = "delete"
    /\ pc = "done"
    /\ DeclaredContainers = <<Container([name |-> "a"]), Container([name |-> "ab"])>>
    /\ Len(muts) = 2
    /\ muts[1].url = api_url \o "/1.0/containers/a"
    /\ muts[2].url = api_url \o "/1.0/containers/ab"

-----------------------------------------------------------------------------
(* C17 *)

\* positions in log of the wait GETs, and of the responses of type async
Waits == {k \in 1..Len(log) : IsWaitGet(log[k])}

Asyncs == {k \in 1..Len(log) : log[k].resp.type = "async"}

\* C17: in every lifecycle call there are as many wait GETs as responses of type
\* async (but for one just received, whose wait is the next request); a wait comes
\* right after the response that caused it and targets its handle, so a response of
\* type sync or error causes no wait and no wait is repeated.
C17_OneWaitPerAsync ==
    LET waits == Waits
        asyncs == Asyncs
    IN  /\ Cardinality(waits) + (IF pc = "hook_161" THEN 1 ELSE 0) = Cardinality(asyncs)
        /\ waits = {k + 1 : k \in asyncs} \cap 1..Len(log)
        /\ \A k \in waits : log[k].url = api_url \o log[k - 1].resp.operation \o "/wait"
        /\ pc = "hook_161" <=> (log /= <<>> /\ Last(log).resp.type = "async")

\* a call has returned after two responses of type async, the second one the
\* answer to the wait for the first, and two waits
C17_Witness ==
    /\ Returned
    /\ Cardinality(Asyncs) = 2
    /\ Cardinality(Waits) = 2
    /\ \E k \in Asyncs : k + 1 \in Asyncs /\ ~IsWaitGet(log[k])

-----------------------------------------------------------------------------
(* C18 *)

\* no wait of the call has been answered with a response of type async
NoAsyncWait == \A k \in 1..Len(log) : log[k].resp.type = "async" => ~IsWaitGet(log[k])

\* a lifecycle call is in progress
InProgress == pc \notin {"main", "done", "failed"}

\* the hook classifies the answer to a wait as any other response; while no wait is
\* answered async a call makes at most six requests, and a create() or delete()
\* at most one mutating request, two listing GETs and one wait
RequestsBounded ==
    /\ \A k \in 1..Len(log) :
            IsWaitGet(log[k]) =>
                /\ log[k].resp.type = "error" => (pc = "failed" /\ err = [msg |-> "json", body |-> log[k].resp])
                /\ (log[k].resp.type = "async" /\ k < Len(log)) => IsWaitGet(log[k + 1])
    /\ NoAsyncWait =>
            /\ Len(log) <= 6
            /\ (idx >= 1 /\ cmd \in {"create", "delete"}) =>
                    LET r == Self
                    IN  /\ Cardinality({k \in 1..Len(log) : IsMutating(log[k])}) <= 1
                        /\ Cardinality({k \in 1..Len(log) : IsListingGet(log[k], r)}) <= 2
                        /\ Len(log) <= 4

\* C18: the answer to a wait goes through the same hook (type error fails the call
\* before the status code is read, type async starts a nested wait); a lifecycle
\* call in progress comes to its end, by returning or failing, unless a wait is
\* answered with type async, and until then its requests are bounded as above.
C18_Termination == [](RequestsBounded) /\ (InProgress ~> (Ended \/ ~NoAsyncWait))

\* a create() has returned after its four requests: listing, POST answered async,
\* the wait, listing
C18_Witness ==
    /\ InCall("create")
    /\ Returned
    /\ NoAsyncWait
    /\ Len(log) = 4
    /\ IsWaitGet(log[3])

-----------------------------------------------------------------------------
(* C19 *)

\* C19: _is_running asks for the detail of a container only after a listing that
\* holds its path; a start() whose first listing lacks the path sends the PUT on
\* <element>/state as its second request, never a POST, and ends in a failure (a
\* response of type error, a failed wait, or "container starting failed") unless
\* the check after the PUT finds the container listed and running.
C19_StartOfMissing ==
    InCall("start") =>
        LET r == Self
        IN  /\ \A k \in 1..Len(log) : IsDetailGet(log[k], r) => Lists(k - 1, r)
            /\ ListsNot(1, r) =>
                    /\ Len(log) >= 2 => IsPutOf(log[2], r, "start")
                    /\ pc \notin {"_exists_47", "_is_running_and", "start_93"} => Len(log) >= 2
                    /\ \A k \in 1..Len(log) : log[k].method /= "POST"
                    /\ Returned => (Len(log) >= 4 /\ SawRunning(Len(log), r))
                    /\ pc = "failed" => err.msg \in {"json", "wait_json", "container starting failed"}
                    /\ (pc = "failed" /\ err.msg = "container starting failed") => ~SawRunning(Len(log), r)

\* the container was not listed, the PUT was accepted, the container is still not
\* listed: "container starting failed"
C19_Witness ==
    /\ InCall("start")
    /\ ListsNot(1, Self)
    /\ Len(log) = 3
    /\ IsPutOf(log[2], Self, "start")
    /\ ListsNot(3, Self)
    /\ pc = "failed"
    /\ err.msg = "container starting failed"

-----------------------------------------------------------------------------
(* C20 *)

\* the resources the document declares, as the hypervisor holds them
DeclaredElems == {Elem(Plan[i].res) : i \in 1..Len(Plan)}

\* the resource a DELETE of the run removes
TargetOfDelete(m) == CHOOSE e \in Universe : m.url = api_url \o HPath(e)

\* C20: with unique names and a hypervisor that honours every request, no run
\* fails; a create run issues one POST for each declared resource that was absent
\* when it began and nothing else, and leaves every declared resource present; a
\* delete run issues one DELETE for each declared resource that was present when
\* it began and nothing else, and leaves every declared resource absent. So create
\* and then delete, from all absent, issue one POST and one DELETE per resource
\* and leave all absent again, and a command run a second time in a row issues
\* GETs only.
C20_RoundTrip ==
    LET declared == DeclaredElems
    IN  /\ pc /= "failed"
        /\ cmd = "create" =>
                /\ \A i \in 1..Len(muts) :
                        /\ muts[i].method = "POST"
                        /\ TargetOfPost(muts[i]) \in declared \ initially[1]
                        /\ \A j \in 1..Len(muts) : muts[i] = muts[j] => i = j
                /\ pc = "done" =>
                        /\ declared \subseteq present
                        /\ Len(muts) = Cardinality(declared \ initially[1])
        /\ cmd = "delete" =>
                /\ \A i \in 1..Len(muts) :
                        /\ muts[i].method = "DELETE"
                        /\ TargetOfDelete(muts[i]) \in declared \cap initially[1]
                        /\ \A j \in 1..Len(muts) : muts[i] = muts[j] => i = j
                /\ pc = "done" =>
                        /\ declared \cap present = {}
                        /\ Len(muts) = Cardinality(declared \cap initially[1])
        /\ present \ declared = initially[1] \ declared

\* a delete run that began with the five declared resources present, as a create
\* run leaves them, is over: five DELETEs, all absent again
C20_Witness ==
    /\ cmd = "delete"
    /\ pc = "done"
    /\ Cardinality(DeclaredElems) = 5
    /\ DeclaredElems \subseteq initially[1]
    /\ DeclaredElems \cap present = {}
    /\ Len(muts) = 5

====
